---- MODULE Spec2Model ----
(***************************************************************************)
(* Model of tarhelper.Tar (src/tarhelper/tar.go): NewTar, ExcludePath,     *)
(* Archive, processDirectory, processEntry, cleanLinkName and              *)
(* shouldBeExcluded, run against a small on-disk tree.                     *)
(*                                                                         *)
(* Strings are sequences of one-character strings, so that path cleaning,  *)
(* joining, globbing and substring tests are computed, not assumed.        *)
(***************************************************************************)
EXTENDS Integers, Sequences, FiniteSets, TLC

(***************************************************************************)
(* Path and string functions used by tar.go (package path/filepath and     *)
(* package strings), on character sequences.                               *)
(***************************************************************************)
Separator == "/"

Dot == <<".">>

DotDot == <<".", ".">>

RECURSIVE SplitPath(_)
\* the components of p between separators, empty components included
SplitPath(p) ==
    IF \A i \in 1..Len(p) : p[i] # Separator
    THEN <<p>>
    ELSE LET i == CHOOSE k \in 1..Len(p) :
                      p[k] = Separator /\ \A j \in 1..(k - 1) : p[j] # Separator
         IN  <<SubSeq(p, 1, i - 1)>> \o SplitPath(SubSeq(p, i + 1, Len(p)))

RECURSIVE JoinComps(_)
\* strings.Join(comps, "/")
JoinComps(comps) ==
    IF comps = << >> THEN << >>
    ELSE IF Len(comps) = 1 THEN comps[1]
    ELSE comps[1] \o <<Separator>> \o JoinComps(Tail(comps))

IsAbs(p) == Len(p) > 0 /\ p[1] = Separator

RECURSIVE CleanComps(_, _, _)
\* filepath.Clean's scan: drop empty and "." components, let ".." cancel the
\* component before it, keep leading ".." of a relative path, drop ".." at the
\* root of a rooted path
CleanComps(comps, acc, rooted) ==
    IF comps = << >> THEN acc
    ELSE LET c == Head(comps)
             rest == Tail(comps)
         IN  IF c = << >> \/ c = Dot THEN CleanComps(rest, acc, rooted)
             ELSE IF c = DotDot
                  THEN IF acc # << >> /\ acc[Len(acc)] # DotDot
                       THEN CleanComps(rest, SubSeq(acc, 1, Len(acc) - 1), rooted)
                       ELSE IF rooted THEN CleanComps(rest, acc, rooted)
                            ELSE CleanComps(rest, Append(acc, c), rooted)
                  ELSE CleanComps(rest, Append(acc, c), rooted)

Clean(p) ==
    IF p = << >> THEN Dot
    ELSE LET rooted == IsAbs(p)
             body == JoinComps(CleanComps(SplitPath(p), << >>, rooted))
         IN  IF rooted THEN <<Separator>> \o body
             ELSE IF body = << >> THEN Dot ELSE body

\* filepath.Join: empty elements are ignored, the rest joined and cleaned
Join(elems) ==
    LET ne == SelectSeq(elems, LAMBDA e : e # << >>)
    IN  IF ne = << >> THEN << >> ELSE Clean(JoinComps(ne))

LastSep(p) ==
    IF \E i \in 1..Len(p) : p[i] = Separator
    THEN CHOOSE i \in 1..Len(p) :
             p[i] = Separator /\ \A j \in (i + 1)..Len(p) : p[j] # Separator
    ELSE 0

\* filepath.Dir: everything up to the last separator, cleaned
Dir(p) == Clean(SubSeq(p, 1, LastSep(p)))

RECURSIVE StripTrailingSep(_)
StripTrailingSep(p) ==
    IF Len(p) > 0 /\ p[Len(p)] = Separator
    THEN StripTrailingSep(SubSeq(p, 1, Len(p) - 1))
    ELSE p

\* filepath.Base: the last element, trailing separators removed first
Base(p) ==
    IF p = << >> THEN Dot
    ELSE LET q == StripTrailingSep(p)
         IN  IF q = << >> THEN <<Separator>>
             ELSE SubSeq(q, LastSep(q) + 1, Len(q))

\* the working directory of the process, used by filepath.Abs
Cwd == <<"/", "h">>

\* filepath.Abs
Abs(p) == IF IsAbs(p) THEN Clean(p) ELSE Join(<<Cwd, p>>)

HasPrefix(s, pre) ==
    Len(pre) <= Len(s) /\ SubSeq(s, 1, Len(pre)) = pre

\* strings.Contains
Contains(s, sub) ==
    \E i \in 0..(Len(s) - Len(sub)) : SubSeq(s, i + 1, i + Len(sub)) = sub

RECURSIVE CommonComps(_, _)
\* number of leading components two component lists share
CommonComps(b, t) ==
    IF b = << >> \/ t = << >> \/ Head(b) # Head(t) THEN 0
    ELSE 1 + CommonComps(Tail(b), Tail(t))

\* filepath.Rel(basepath, targpath): [ok, path]
Rel(basepath, targpath) ==
    LET base == Clean(basepath)
        targ == Clean(targpath)
        b0 == IF base = Dot THEN << >> ELSE base
        bc == SelectSeq(SplitPath(b0), LAMBDA c : c # << >>)
        tc == SelectSeq(SplitPath(targ), LAMBDA c : c # << >>)
        n == CommonComps(bc, tc)
        brest == SubSeq(bc, n + 1, Len(bc))
        trest == SubSeq(tc, n + 1, Len(tc))
    IN  IF targ = base THEN [ok |-> TRUE, path |-> Dot]
        ELSE IF IsAbs(b0) # IsAbs(targ) THEN [ok |-> FALSE, path |-> << >>]
        ELSE IF brest # << >> /\ brest[1] = DotDot
             THEN [ok |-> FALSE, path |-> << >>]
        ELSE IF brest # << >>
             THEN [ok |-> TRUE,
                   path |-> JoinComps([i \in 1..Len(brest) |-> DotDot] \o trest)]
        ELSE [ok |-> TRUE, path |-> JoinComps(trest)]

\* Match that takes the pattern literally
Match_Literal(pattern, name) == pattern = name

RECURSIVE Match(_, _)
\* filepath.Match for patterns made of literals, '*' and '?': '*' matches any
\* run of non-separator characters, '?' one non-separator character
Match(pattern, name) ==
    IF pattern = << >> THEN name = << >>
    ELSE IF Head(pattern) = "*"
         THEN \/ Match(Tail(pattern), name)
              \/ /\ name # << >>
                 /\ Head(name) # Separator
                 /\ Match(pattern, Tail(name))
         ELSE /\ name # << >>
              /\ \/ Head(pattern) = "?" /\ Head(name) # Separator
                 \/ Head(pattern) = Head(name)
              /\ Match(Tail(pattern), Tail(name))


(***************************************************************************)
(* The on-disk tree that Archive reads.  fs[n] describes object n; object  *)
(* 0 is the target directory itself.  The children of a directory are the  *)
(* objects whose parent it is, numbered in the order ioutil.ReadDir lists  *)
(* them (by name).                                                         *)
(***************************************************************************)
Nodes == 0..4

\* at most this many links to a file of the tree live outside the tree
MaxOutsideLinks == 1

Mode0755 == 493

Mode0644 == 420

DefaultId == 500

NoFile == [dev |-> 0, ino |-> 0, size |-> 0, mode |-> 0, uid |-> 0, gid |-> 0]

\* regular-file objects: F1 and F3 live on the filesystem of the root, F2 on
\* another filesystem mounted below it and carries the inode number of F1
F1 == [dev |-> 1, ino |-> 7, size |-> 2, mode |-> 384, uid |-> 1000, gid |-> 100]

F2 == [dev |-> 2, ino |-> 7, size |-> 1, mode |-> 511, uid |-> 0, gid |-> 0]

F3 == [dev |-> 1, ino |-> 8, size |-> 0, mode |-> 420, uid |-> 500, gid |-> 500]

Files == {F1, F2, F3}

RegularOf(file) == [kind |-> "regular", file |-> file, link |-> << >>]

SymlinkTo(link) == [kind |-> "symlink", file |-> NoFile, link |-> link]

Special(kind) == [kind |-> kind, file |-> NoFile, link |-> << >>]

Absent == Special("none")

NodeName(n) ==
    CASE n = 0 -> Dot
      [] n = 1 -> <<"a">>
      [] n = 2 -> <<"b">>
      [] n = 3 -> <<"c">>
      [] n = 4 -> <<"d">>

NodeParent(n) == IF n \in {2, 3} THEN 1 ELSE 0

\* on-disk permission bits and owner of the objects that are not regular
\* files (a regular file has those of its inode)
DiskMode(n) ==
    CASE n = 0 -> 448
      [] n = 1 -> 488
      [] n = 2 -> 511
      [] n = 3 -> 432
      [] n = 4 -> 493

DiskUid(n) == IF n = 4 THEN DefaultId ELSE n * 1000

DiskGid(n) == IF n = 4 THEN DefaultId ELSE 100 + n

\* pick[n] is what objects 2..4 are; objects 0 and 1 are directories
MkFS(pick, outside) ==
    [n \in Nodes |->
        LET p == IF n \in {0, 1} THEN Special("dir") ELSE pick[n]
            same == {m \in DOMAIN pick :
                        pick[m].kind = "regular" /\ pick[m].file = p.file}
        IN  [name   |-> NodeName(n),
             parent |-> NodeParent(n),
             kind   |-> p.kind,
             dev    |-> p.file.dev,
             ino    |-> p.file.ino,
             size   |-> p.file.size,
             nlink  |-> IF p.kind = "regular"
                        THEN Cardinality(same)
                             + (IF p.file = F2 THEN outside ELSE 0)
                        ELSE 1,
             link   |-> p.link,
             mode   |-> IF p.kind = "regular" THEN p.file.mode ELSE DiskMode(n),
             uid    |-> IF p.kind = "regular" THEN p.file.uid ELSE DiskUid(n),
             gid    |-> IF p.kind = "regular" THEN p.file.gid ELSE DiskGid(n)]]


(***************************************************************************)
(* State.                                                                  *)
(***************************************************************************)
VARIABLES
    fs,          \* the on-disk tree below t.target
    todo,        \* the ExcludePath calls the caller makes before Archive
    t,           \* the Tar struct
    tw,          \* the tar.Writer behind t.archive
    gz,          \* the gzip.Writer of Archive: "nil", "open" or "closed"
    pc,          \* where the caller and Archive are
    cur,         \* the arguments of the running processEntry call
    stack,       \* the running processDirectory loops, innermost last
    result,      \* what Archive returns: "none" while it has not decided
    out,         \* the entries the tar.Writer wrote to its underlying writer
    footer,      \* what became of the end-of-archive blocks
    destWritten, \* whether t.dest has received any byte
    closeLog,    \* the writers closed so far, in order
    handles      \* source files open (os.Open not yet followed by Close)

vars == <<fs, todo, t, tw, gz, pc, cur, stack, result, out, footer,
          destWritten, closeLog, handles>>

Compressions == {"NONE", "GZIP", "BZIP2", "DETECT", "OTHER"}

\* NewTar(w, targetDir); Compression is left at its zero value
NewTar(targetDir) ==
    [target             |-> targetDir,
     archive            |-> "nil",
     Compression        |-> "NONE",
     IncludePermissions |-> TRUE,
     IncludeOwners      |-> FALSE,
     ExcludedPaths      |-> << >>,
     VirtualPath        |-> << >>,
     hardLinks          |-> << >>]

\* tar.NewWriter
NewWriter == [err |-> FALSE, closed |-> FALSE, nb |-> 0]

NoCur == [node |-> 0, fullName |-> << >>]

\* the state after NewTar and the caller's assignments to the exported
\* fields, for a tree and a configuration drawn from the given sets
InitWith(picks, outsides, configs, scripts) ==
    \E pick \in picks, outside \in outsides, c \in configs, script \in scripts :
        /\ fs = MkFS(pick, outside)
        /\ todo = script
        /\ t = [NewTar(c.target) EXCEPT
                    !.Compression = c.Compression,
                    !.IncludePermissions = c.IncludePermissions,
                    !.IncludeOwners = c.IncludeOwners,
                    !.VirtualPath = c.VirtualPath]
        /\ tw = NewWriter
        /\ gz = "nil"
        /\ pc = "config"
        /\ cur = NoCur
        /\ stack = << >>
        /\ result = "none"
        /\ out = << >>
        /\ footer = "none"
        /\ destWritten = FALSE
        /\ closeLog = << >>
        /\ handles = 0


(***************************************************************************)
(* ExcludePath                                                             *)
(***************************************************************************)
\* the name ExcludePath stores: a leading separator is stripped
StripLeadingSlash(name) ==
    IF HasPrefix(name, <<Separator>>) THEN Tail(name) ELSE name

ExcludePath ==
    /\ pc = "config"
    /\ todo # << >>
    /\ t' = [t EXCEPT !.ExcludedPaths = Append(@, StripLeadingSlash(Head(todo)))]
    /\ todo' = Tail(todo)
    /\ UNCHANGED <<fs, tw, gz, pc, cur, stack, result, out, footer,
                   destWritten, closeLog, handles>>

(***************************************************************************)
(* Archive: the compression switch, the stat of the root, the deferred     *)
(* closes.                                                                 *)
(***************************************************************************)
\* WriterFor with the rejected modes falling through to the plain writer
WriterFor_FallThrough(compression) ==
    IF compression = "GZIP" THEN "gzip" ELSE "plain"

\* the writer Archive sets up for a compression mode: "plain" (tar.Writer on
\* t.dest), "gzip" (tar.Writer on a gzip.Writer on t.dest) or "error"
WriterFor(compression) ==
    CASE compression = "NONE" -> "plain"
      [] compression = "GZIP" -> "gzip"
      [] OTHER -> "error"

\* the deferred calls of Archive in the order the defer statements register
\* them; they run last-registered first
Deferred(compression) ==
    IF compression = "GZIP" THEN <<"archive", "gzip">> ELSE <<"archive">>

\* the program point that runs the deferred call Archive reaches next, given
\* the deferred calls still to run
DeferPc(pending) ==
    IF pending = << >> THEN "done"
    ELSE IF pending[Len(pending)] = "gzip" THEN "defer_gzip"
    ELSE "defer_archive"

\* Archive leaves with res: the deferred closes run next
Leave(res) ==
    /\ result' = res
    /\ pc' = DeferPc(Deferred(t.Compression))
    /\ cur' = NoCur
    /\ stack' = << >>

Archive ==
    /\ pc = "config"
    /\ todo = << >>
    /\ LET w == WriterFor(t.Compression)
       IN  IF w = "error"
           THEN \* return fmt.Errorf(...): only the first defer is registered
                \* and t.archive is nil
                /\ result' = "error"
                /\ pc' = "done"
                /\ UNCHANGED <<t, tw, gz>>
           ELSE /\ t' = [t EXCEPT !.archive = "set"]
                /\ tw' = NewWriter
                /\ gz' = IF w = "gzip" THEN "open" ELSE "nil"
                /\ pc' = "stat"
                /\ UNCHANGED result
    /\ UNCHANGED <<fs, todo, cur, stack, out, footer, destWritten, closeLog,
                   handles>>

\* f, err := os.Stat(t.target)
StatRoot ==
    /\ pc = "stat"
    /\ \E ok \in BOOLEAN :
          IF ok
          THEN /\ pc' = "entry"
               /\ cur' = [node |-> 0, fullName |-> Dot]
               /\ UNCHANGED <<stack, result>>
          ELSE Leave("error")
    /\ UNCHANGED <<fs, todo, t, tw, gz, out, footer, destWritten, closeLog,
                   handles>>

\* defer dest.Close() of the gzip.Writer
DeferGzipClose ==
    /\ pc = "defer_gzip"
    /\ gz' = "closed"
    /\ closeLog' = Append(closeLog, "gzip")
    /\ destWritten' = TRUE
    /\ pc' = DeferPc(SubSeq(Deferred(t.Compression), 1,
                            Len(Deferred(t.Compression)) - 1))
    /\ UNCHANGED <<fs, todo, t, tw, cur, stack, result, out, footer, handles>>

\* what tar.Writer.Close does with the end-of-archive blocks: nothing when the
\* writer is in error or the current entry misses bytes; otherwise it writes
\* them to the underlying writer, which takes them ("written"), or, being a
\* gzip.Writer that is already closed, refuses them ("rejected") or lets them
\* through behind the end of the compressed stream ("stray")
CloseOutcomes(w, g) ==
    IF w.err \/ w.closed \/ w.nb > 0 THEN {"none"}
    ELSE IF g = "closed" THEN {"rejected", "stray"}
    ELSE {"written", "failed"}

\* defer func() { if t.archive != nil { t.archive.Close(); t.archive = nil } }
DeferArchiveClose ==
    /\ pc = "defer_archive"
    /\ IF t.archive # "nil"
       THEN /\ \E o \in CloseOutcomes(tw, gz) :
                  /\ footer' = o
                  /\ destWritten' =
                        (destWritten \/ (o = "written" /\ gz = "nil") \/ o = "stray")
            /\ tw' = [tw EXCEPT !.closed = TRUE]
            /\ closeLog' = Append(closeLog, "archive")
            /\ t' = [t EXCEPT !.archive = "nil"]
       ELSE UNCHANGED <<footer, destWritten, tw, closeLog, t>>
    /\ pc' = "done"
    /\ UNCHANGED <<fs, todo, gz, cur, stack, result, out, handles>>


(***************************************************************************)
(* processEntry and processDirectory                                       *)
(***************************************************************************)
\* shouldBeExcluded without the match on the last path component
shouldBeExcluded_FullPathOnly(name) ==
    \E i \in 1..Len(t.ExcludedPaths) : Match(t.ExcludedPaths[i], name)

shouldBeExcluded(name) ==
    \E i \in 1..Len(t.ExcludedPaths) :
        \/ Match(t.ExcludedPaths[i], name)
        \/ Match(t.ExcludedPaths[i], Base(name))

\* tar.FileInfoHeader(f, ""): the header fields taken from the file's metadata
FileInfoHeader(n) ==
    LET f == fs[n]
    IN  [node     |-> n,
         name     |-> f.name,
         typeflag |-> CASE f.kind = "regular" -> "reg"
                        [] f.kind = "dir" -> "dir"
                        [] f.kind = "symlink" -> "symlink"
                        [] f.kind = "device" -> "block"
                        [] f.kind = "fifo" -> "fifo"
                        [] OTHER -> "none",
         size     |-> IF f.kind = "regular" THEN f.size ELSE 0,
         mode     |-> f.mode,
         uid      |-> f.uid,
         gid      |-> f.gid,
         linkname |-> << >>,
         devset   |-> FALSE,
         body     |-> "none"]

\* HeaderName with the virtual path put behind "./" and nothing cleaned
HeaderName_Uncleaned(fullName) ==
    IF t.VirtualPath # << >>
    THEN <<".", Separator>> \o t.VirtualPath \o <<Separator>> \o fullName
    ELSE <<".", Separator>> \o fullName

\* header.Name: "./" + fullName, moved below t.VirtualPath when that is set
HeaderName(fullName) ==
    LET name == <<".", Separator>> \o fullName
    IN  IF t.VirtualPath # << >>
        THEN Clean(Join(<<Dot, t.VirtualPath, name>>))
        ELSE name

\* BaseHeader with the group taken from the file whatever IncludeOwners says
BaseHeader_GidKept(n, fullName) ==
    LET h == [FileInfoHeader(n) EXCEPT !.name = HeaderName(fullName)]
    IN  IF t.IncludeOwners
        THEN [h EXCEPT !.uid = fs[n].uid, !.gid = fs[n].gid]
        ELSE [h EXCEPT !.uid = DefaultId]

\* the header before the switch on the file's kind: name and owner
BaseHeader(n, fullName) ==
    LET h == [FileInfoHeader(n) EXCEPT !.name = HeaderName(fullName)]
    IN  IF t.IncludeOwners
        THEN [h EXCEPT !.uid = fs[n].uid, !.gid = fs[n].gid]
        ELSE [h EXCEPT !.uid = DefaultId, !.gid = DefaultId]

DirectoryHeader(n, fullName) ==
    LET h == BaseHeader(n, fullName)
        m == IF ~t.IncludePermissions THEN Mode0755 ELSE h.mode
    IN  [h EXCEPT !.mode = m, !.name = h.name \o <<Separator>>]

\* cleanLinkName that never makes the target relative
cleanLinkName_KeepAbsolute(targetDir, name, readlink) ==
    LET dir == Dir(name)
        abs == IF ~IsAbs(readlink)
               THEN Abs(Join(<<targetDir, dir, readlink>>))
               ELSE readlink
    IN  [ok |-> TRUE, path |-> Clean(abs)]

\* cleanLinkName(targetDir, name), given what os.Readlink returned: [ok, path]
cleanLinkName(targetDir, name, readlink) ==
    LET dir == Dir(name)
        abs == IF ~IsAbs(readlink)
               THEN Abs(Join(<<targetDir, dir, readlink>>))
               ELSE readlink
        link == Clean(abs)
    IN  IF Contains(link, targetDir)
        THEN Rel(Join(<<targetDir, dir>>), link)
        ELSE [ok |-> TRUE, path |-> link]

SymlinkHeader(n, fullName, link) ==
    LET h == BaseHeader(n, fullName)
        m == IF ~t.IncludePermissions THEN Mode0755 ELSE h.mode
    IN  [h EXCEPT !.mode = m, !.linkname = link]

\* RegularHeader without the test of the link count
RegularHeader_AnyLinkCount(n, fullName) ==
    LET h == BaseHeader(n, fullName)
        m == IF ~t.IncludePermissions THEN Mode0644 ELSE h.mode
        f == fs[n]
    IN  IF f.ino \in DOMAIN t.hardLinks
        THEN [h EXCEPT !.mode = m, !.typeflag = "link",
                       !.linkname = t.hardLinks[f.ino], !.size = 0]
        ELSE [h EXCEPT !.mode = m]

\* RegularHeader with the directory default as the substituted mode
RegularHeader_DirectoryMode(n, fullName) ==
    LET h == BaseHeader(n, fullName)
        m == IF ~t.IncludePermissions THEN Mode0755 ELSE h.mode
        f == fs[n]
    IN  IF f.nlink > 1 /\ f.ino \in DOMAIN t.hardLinks
        THEN [h EXCEPT !.mode = m, !.typeflag = "link",
                       !.linkname = t.hardLinks[f.ino], !.size = 0]
        ELSE [h EXCEPT !.mode = m]

\* the header of a regular file after the hard-link check
RegularHeader(n, fullName) ==
    LET h == BaseHeader(n, fullName)
        m == IF ~t.IncludePermissions THEN Mode0644 ELSE h.mode
        f == fs[n]
    IN  IF f.nlink > 1 /\ f.ino \in DOMAIN t.hardLinks
        THEN [h EXCEPT !.mode = m, !.typeflag = "link",
                       !.linkname = t.hardLinks[f.ino], !.size = 0]
        ELSE [h EXCEPT !.mode = m]

\* RecordHardLink that records the last file seen
RecordHardLink_Overwrite(n, fullName) ==
    LET f == fs[n]
    IN  IF f.nlink > 1
        THEN (f.ino :> BaseHeader(n, fullName).name) @@ t.hardLinks
        ELSE t.hardLinks

\* t.hardLinks after the hard-link check of a regular file
RecordHardLink(n, fullName) ==
    LET f == fs[n]
    IN  IF f.nlink > 1 /\ f.ino \notin DOMAIN t.hardLinks
        THEN (f.ino :> BaseHeader(n, fullName).name) @@ t.hardLinks
        ELSE t.hardLinks

DeviceHeader(n, fullName) ==
    [BaseHeader(n, fullName) EXCEPT !.devset = TRUE]

\* ReadDir that loses the last object of a directory
ReadDir_LastDropped(dirNode) ==
    LET RECURSIVE From(_)
        From(n) ==
            IF n \notin Nodes THEN << >>
            ELSE (IF n # 0 /\ fs[n].parent = dirNode /\ fs[n].kind # "none"
                  THEN <<n>> ELSE << >>) \o From(n + 1)
        l == From(0)
    IN  IF l = << >> THEN l ELSE SubSeq(l, 1, Len(l) - 1)

\* ioutil.ReadDir: the objects of a directory, in name order
RECURSIVE ListFrom(_, _)
ListFrom(dirNode, n) ==
    IF n \notin Nodes THEN << >>
    ELSE (IF n # 0 /\ fs[n].parent = dirNode /\ fs[n].kind # "none"
          THEN <<n>> ELSE << >>) \o ListFrom(dirNode, n + 1)

ReadDir(dirNode) == ListFrom(dirNode, 0)

\* where control goes when a processEntry call returns nil: to the next file of
\* the innermost processDirectory loop; a loop that is through returns nil to
\* the processEntry that called it; the outermost return ends Archive
RECURSIVE Resume(_)
Resume(stk) ==
    IF stk = << >>
    THEN [pc |-> "return", cur |-> NoCur, stack |-> << >>]
    ELSE LET top == stk[Len(stk)]
         IN  IF top.files = << >>
             THEN Resume(SubSeq(stk, 1, Len(stk) - 1))
             ELSE [pc    |-> "entry",
                   cur   |-> [node     |-> Head(top.files),
                              fullName |-> Join(<<top.dir,
                                                  fs[Head(top.files)].name>>)],
                   stack |-> [stk EXCEPT ![Len(stk)].files = Tail(top.files)]]

\* processEntry returns nil
ReturnNil(stk) ==
    LET r == Resume(stk)
    IN  IF r.pc = "return"
        THEN Leave("nil")
        ELSE /\ pc' = r.pc
             /\ cur' = r.cur
             /\ stack' = r.stack
             /\ UNCHANGED result

\* t.archive.WriteHeader(h) succeeded
WroteHeader(h) ==
    /\ out' = Append(out, h)
    /\ tw' = [tw EXCEPT !.nb = h.size]
    /\ destWritten' = (destWritten \/ gz = "nil")

\* WriteFailed that goes on with the next object
WriteFailed_Ignored ==
    /\ tw' = [tw EXCEPT !.err = TRUE]
    /\ UNCHANGED <<out, destWritten>>
    /\ ReturnNil(stack)

\* a write through t.archive failed: the tar.Writer keeps the error
WriteFailed ==
    /\ tw' = [tw EXCEPT !.err = TRUE]
    /\ UNCHANGED <<out, destWritten>>
    /\ Leave("error")

\* if t.shouldBeExcluded(fullName) { return nil }
EntryExcluded ==
    /\ pc = "entry"
    /\ shouldBeExcluded(cur.fullName)
    /\ ReturnNil(stack)
    /\ UNCHANGED <<fs, todo, t, tw, gz, out, footer, destWritten, closeLog,
                   handles>>

\* EntryDirectory that lists the directory without having written its header
EntryDirectory_NoHeader ==
    /\ pc = "entry"
    /\ ~shouldBeExcluded(cur.fullName)
    /\ fs[cur.node].kind = "dir"
    /\ pc' = "readdir"
    /\ UNCHANGED <<fs, todo, t, tw, gz, cur, stack, result, out, footer,
                   destWritten, closeLog, handles>>

\* case f.IsDir(), up to the header write
EntryDirectory ==
    /\ pc = "entry"
    /\ ~shouldBeExcluded(cur.fullName)
    /\ fs[cur.node].kind = "dir"
    /\ \E ok \in BOOLEAN :
          IF ok
          THEN /\ WroteHeader(DirectoryHeader(cur.node, cur.fullName))
               /\ pc' = "readdir"
               /\ UNCHANGED <<cur, stack, result>>
          ELSE WriteFailed
    /\ UNCHANGED <<fs, todo, t, gz, footer, closeLog, handles>>

\* processDirectory(fullName): the directory listing; the loop is Resume
ProcessDirectory ==
    /\ pc = "readdir"
    /\ \E ok \in BOOLEAN :
          IF ok
          THEN ReturnNil(Append(stack, [dir   |-> cur.fullName,
                                        files |-> ReadDir(cur.node)]))
          ELSE Leave("error")
    /\ UNCHANGED <<fs, todo, t, tw, gz, out, footer, destWritten, closeLog,
                   handles>>

\* case mode&os.ModeSymlink == os.ModeSymlink
EntrySymlink ==
    /\ pc = "entry"
    /\ ~shouldBeExcluded(cur.fullName)
    /\ fs[cur.node].kind = "symlink"
    /\ \E readOk \in BOOLEAN, ok \in BOOLEAN :
          LET r == cleanLinkName(t.target, cur.fullName, fs[cur.node].link)
          IN  IF ~readOk \/ ~r.ok
              THEN /\ Leave("error")
                   /\ UNCHANGED <<tw, out, destWritten>>
              ELSE IF ok
              THEN /\ WroteHeader(SymlinkHeader(cur.node, cur.fullName, r.path))
                   /\ ReturnNil(stack)
              ELSE WriteFailed
    /\ UNCHANGED <<fs, todo, t, gz, footer, closeLog, handles>>

\* case mode&os.ModeType == 0, up to the header write
EntryRegular ==
    /\ pc = "entry"
    /\ ~shouldBeExcluded(cur.fullName)
    /\ fs[cur.node].kind = "regular"
    /\ t' = [t EXCEPT !.hardLinks = RecordHardLink(cur.node, cur.fullName)]
    /\ \E ok \in BOOLEAN :
          LET h == RegularHeader(cur.node, cur.fullName)
          IN  IF ok
              THEN /\ WroteHeader(h)
                   /\ IF h.typeflag = "reg"
                      THEN /\ pc' = "open"
                           /\ UNCHANGED <<cur, stack, result>>
                      ELSE ReturnNil(stack)
              ELSE WriteFailed
    /\ UNCHANGED <<fs, todo, gz, footer, closeLog, handles>>

\* data, err := os.Open(...)
OpenFile ==
    /\ pc = "open"
    /\ \E ok \in BOOLEAN :
          IF ok
          THEN /\ handles' = handles + 1
               /\ pc' = "copy"
               /\ UNCHANGED <<cur, stack, result>>
          ELSE /\ Leave("error")
               /\ UNCHANGED handles
    /\ UNCHANGED <<fs, todo, t, tw, gz, out, footer, destWritten, closeLog>>

\* _, err = io.Copy(t.archive, data): all of the content, or an error from
\* the source file (the entry is left short when it has content) or from the
\* writer
CopyFile ==
    /\ pc = "copy"
    /\ \E o \in {"ok", "read", "write"} :
          CASE o = "ok" ->
                 /\ out' = [out EXCEPT ![Len(out)].body = "full"]
                 /\ tw' = [tw EXCEPT !.nb = 0]
                 /\ destWritten' = (destWritten \/ (gz = "nil" /\ tw.nb > 0))
                 /\ pc' = "flush"
                 /\ UNCHANGED <<cur, stack, result, handles>>
            [] o = "read" ->
                 /\ out' = [out EXCEPT ![Len(out)].body =
                                IF tw.nb > 0 THEN "partial" ELSE "full"]
                 /\ handles' = handles - 1
                 /\ Leave("error")
                 /\ UNCHANGED <<tw, destWritten>>
            [] o = "write" ->
                 /\ out' = [out EXCEPT ![Len(out)].body = "partial"]
                 /\ tw' = [tw EXCEPT !.err = TRUE]
                 /\ handles' = handles - 1
                 /\ Leave("error")
                 /\ UNCHANGED destWritten
    /\ UNCHANGED <<fs, todo, t, gz, footer, closeLog>>

\* FlushFile without the data.Close() of the error path
FlushFile_LeakOnError ==
    /\ pc = "flush"
    /\ \E ok \in BOOLEAN :
          IF ok
          THEN /\ handles' = handles - 1
               /\ ReturnNil(stack)
               /\ UNCHANGED tw
          ELSE /\ tw' = [tw EXCEPT !.err = TRUE]
               /\ Leave("error")
               /\ UNCHANGED handles
    /\ UNCHANGED <<fs, todo, t, gz, out, footer, destWritten, closeLog>>

\* err = t.archive.Flush(), then data.Close()
FlushFile ==
    /\ pc = "flush"
    /\ handles' = handles - 1
    /\ \E ok \in BOOLEAN :
          IF ok
          THEN /\ ReturnNil(stack)
               /\ UNCHANGED tw
          ELSE /\ tw' = [tw EXCEPT !.err = TRUE]
               /\ Leave("error")
    /\ UNCHANGED <<fs, todo, t, gz, out, footer, destWritten, closeLog>>

\* case mode&os.ModeDevice == os.ModeDevice || ...: when the second os.Stat
\* fails, fi is nil and fi.Sys() is a nil dereference
EntryDevice ==
    /\ pc = "entry"
    /\ ~shouldBeExcluded(cur.fullName)
    /\ fs[cur.node].kind = "device"
    /\ \E statOk \in BOOLEAN, ok \in BOOLEAN :
          IF ~statOk
          THEN /\ Leave("panic")
               /\ UNCHANGED <<tw, out, destWritten>>
          ELSE IF ok
          THEN /\ WroteHeader(DeviceHeader(cur.node, cur.fullName))
               /\ ReturnNil(stack)
          ELSE WriteFailed
    /\ UNCHANGED <<fs, todo, t, gz, footer, closeLog, handles>>

\* EntrySkipped that reports the object as an error
EntrySkipped_Fails ==
    /\ pc = "entry"
    /\ ~shouldBeExcluded(cur.fullName)
    /\ fs[cur.node].kind \in {"socket", "fifo"}
    /\ Leave("error")
    /\ UNCHANGED <<fs, todo, t, tw, gz, out, footer, destWritten, closeLog,
                   handles>>

\* case mode&os.ModeSocket == os.ModeSocket, and default
EntrySkipped ==
    /\ pc = "entry"
    /\ ~shouldBeExcluded(cur.fullName)
    /\ fs[cur.node].kind \in {"socket", "fifo"}
    /\ ReturnNil(stack)
    /\ UNCHANGED <<fs, todo, t, tw, gz, out, footer, destWritten, closeLog,
                   handles>>

Next ==
    \/ ExcludePath
    \/ Archive
    \/ StatRoot
    \/ EntryExcluded
    \/ EntryDirectory
    \/ ProcessDirectory
    \/ EntrySymlink
    \/ EntryRegular
    \/ OpenFile
    \/ CopyFile
    \/ FlushFile
    \/ EntryDevice
    \/ EntrySkipped
    \/ DeferGzipClose
    \/ DeferArchiveClose

\* a further t.Archive() on the same Tar once a call has returned: a new
\* tar.Writer (and gzip.Writer) on t.dest starts a new archive; every field of
\* the Tar, t.hardLinks among them, is as the last call left it
ArchiveAgain ==
    /\ pc = "done"
    /\ result \in {"nil", "error"}
    /\ pc' = "config"
    /\ result' = "none"
    /\ tw' = NewWriter
    /\ gz' = "nil"
    /\ out' = << >>
    /\ footer' = "none"
    /\ closeLog' = << >>
    /\ UNCHANGED <<fs, todo, t, cur, stack, destWritten, handles>>

NextRerun ==
    \/ Next
    \/ ArchiveAgain

(***************************************************************************)
(* The trees and configurations of the main specification.                 *)
(***************************************************************************)
LinkInside == <<"c">>

LinkOutside == <<"/", "o", "/", "x">>

TargetDir == <<"/", "t">>

Picks ==
    [{2, 3, 4} -> {RegularOf(f) : f \in Files}
                  \cup {SymlinkTo(LinkInside), SymlinkTo(LinkOutside),
                        Special("socket"), Special("device"), Special("fifo")}]

MainPicks ==
    {p \in Picks :
        /\ p[2].kind \in {"regular", "socket"} \/ p[2] = SymlinkTo(LinkInside)
        /\ p[3].kind \in {"regular", "device", "fifo"}
        /\ p[4].kind = "regular" \/ p[4] = SymlinkTo(LinkOutside)}

MainConfigs ==
    [target             : {TargetDir},
     Compression        : Compressions,
     IncludePermissions : BOOLEAN,
     IncludeOwners      : BOOLEAN,
     VirtualPath        : {<< >>, <<"v">>}]

MainScripts ==
    { << >>,
      << <<"/", "a">> >>,
      << <<"b">> >>,
      << <<"a", "/", "*">>, <<"d">> >> }

Init == InitWith(MainPicks, 0..MaxOutsideLinks, MainConfigs, MainScripts)

Spec == Init /\ [][Next]_vars


(***************************************************************************)
(* Further specifications: the same program on other trees and             *)
(* configurations.                                                         *)
(***************************************************************************)
\* virtual path prefixes: plain, rooted, nested, with a trailing separator,
\* with a leading "./", and leading out of the archive
VirtualPaths ==
    { <<"v">>, <<"/", "v">>, <<"v", "/", "w">>, <<"v", "/">>,
      <<".", "/", "v">>, <<".", ".">>, <<".", ".", "/", "v">> }

VirtualPicks ==
    {p \in Picks :
        /\ p[2] \in {SymlinkTo(LinkInside), Special("socket")}
        /\ p[3] \in {Special("device"), RegularOf(F1)}
        /\ p[4] \in {RegularOf(F1), RegularOf(F3)}}

VirtualConfigs ==
    [target             : {TargetDir},
     Compression        : {"NONE", "GZIP"},
     IncludePermissions : {TRUE},
     IncludeOwners      : {FALSE},
     VirtualPath        : VirtualPaths]

InitVirtual ==
    InitWith(VirtualPicks, {0}, VirtualConfigs, {<< >>, << <<"d">> >>})

SpecVirtual == InitVirtual /\ [][Next]_vars

\* symlink targets as os.Readlink returns them for a link in directory /t/a
\* or in /t: relative and absolute, inside the root, outside it, the root
\* itself, and paths that only contain the root's path as a string
LinkTargets ==
    { <<"c">>,
      <<".", ".", "/", "d">>,
      <<".", ".", "/", ".", ".", "/", "o">>,
      <<"/", "t", "/", "d">>,
      <<"/", "t">>,
      <<"/", "o", "/", "x">>,
      <<"/", "t", "2", "/", "x">>,
      <<"/", "o", "/", "t", "/", "x">> }

LinkFS ==
    [{2, 3, 4} -> {RegularOf(F3), Special("socket"), Special("device")}
                  \cup {SymlinkTo(l) : l \in LinkTargets}]

LinkConfigs ==
    [target             : {TargetDir, TargetDir \o <<Separator>>},
     Compression        : {"NONE", "GZIP"},
     IncludePermissions : {TRUE},
     IncludeOwners      : {FALSE},
     VirtualPath        : {<< >>}]

InitLink ==
    InitWith({p \in LinkFS :
                 /\ p[2].kind \in {"symlink", "socket"}
                 /\ p[3] \in {Special("device"), RegularOf(F3)}
                 /\ p[4].kind = "symlink" \/ p[4] = RegularOf(F3)},
             {0}, LinkConfigs, {<< >>, << <<"c">> >>})

SpecLink == InitLink /\ [][Next]_vars


(***************************************************************************)
(* One Tar value used for several Archive calls in a row.                  *)
(***************************************************************************)
RerunConfigs ==
    [target             : {TargetDir},
     Compression        : {"NONE", "GZIP"},
     IncludePermissions : {TRUE},
     IncludeOwners      : {FALSE},
     VirtualPath        : {<< >>}]

RerunScripts == { << >>, << <<"b">> >> }

InitRerun == InitWith(MainPicks, 0..MaxOutsideLinks, RerunConfigs, RerunScripts)

SpecRerun == InitRerun /\ [][NextRerun]_vars

(***************************************************************************)
(* The trees of the two end-to-end scenarios of the specification, with    *)
(* and without one further object.                                         *)
(***************************************************************************)
\* the content "hi"
FHi == [dev |-> 1, ino |-> 9, size |-> 2, mode |-> 416, uid |-> 1000, gid |-> 100]

FTmp == [dev |-> 1, ino |-> 10, size |-> 1, mode |-> 416, uid |-> 1000, gid |-> 100]

Name_f_txt == <<"f", ".", "t", "x", "t">>

Name_link == <<"l", "i", "n", "k">>

Name_keep_txt == <<"k", "e", "e", "p", ".", "t", "x", "t">>

Name_drop_tmp == <<"d", "r", "o", "p", ".", "t", "m", "p">>

\* a tree given by the name, the directory and the kind of objects 1..4
MkTree(names, parents, pick) ==
    [n \in Nodes |->
        LET p == IF n = 0 THEN Special("dir") ELSE pick[n]
        IN  [name   |-> IF n = 0 THEN Dot ELSE names[n],
             parent |-> IF n = 0 THEN 0 ELSE parents[n],
             kind   |-> p.kind,
             dev    |-> p.file.dev,
             ino    |-> p.file.ino,
             size   |-> p.file.size,
             nlink  |-> 1,
             link   |-> p.link,
             mode   |-> IF p.kind = "regular" THEN p.file.mode ELSE DiskMode(n),
             uid    |-> IF p.kind = "regular" THEN p.file.uid ELSE DiskUid(n),
             gid    |-> IF p.kind = "regular" THEN p.file.gid ELSE DiskGid(n)]]

\* a/ (directory), a/f.txt (content "hi"), a/link -> f.txt, and object 4
TreeA(fourth) ==
    MkTree(<<<<"a">>, Name_f_txt, Name_link, <<"z">>>>,
           <<0, 1, 1, 0>>,
           <<Special("dir"), RegularOf(FHi), SymlinkTo(Name_f_txt), fourth>>)

\* drop.tmp, keep.txt, and object 3
TreeB(third) ==
    MkTree(<<Name_drop_tmp, Name_keep_txt, <<"z">>, <<"z", "z">>>>,
           <<0, 0, 0, 0>>,
           <<RegularOf(FTmp), RegularOf(FHi), third, Absent>>)

ScenarioTrees ==
    {TreeA(x) : x \in {Absent, Special("device"), Special("socket")}}
    \cup {TreeB(x) : x \in {Absent, Special("fifo")}}

ScenarioConfigs ==
    [target             : {TargetDir},
     Compression        : {"NONE", "GZIP"},
     IncludePermissions : BOOLEAN,
     IncludeOwners      : BOOLEAN,
     VirtualPath        : {<< >>}]

ScenarioScripts == { << >>, << <<"*", ".", "t", "m", "p">> >> }

InitScenario ==
    \E tree \in ScenarioTrees, c \in ScenarioConfigs, script \in ScenarioScripts :
        /\ fs = tree
        /\ todo = script
        /\ t = [NewTar(c.target) EXCEPT
                    !.Compression = c.Compression,
                    !.IncludePermissions = c.IncludePermissions,
                    !.IncludeOwners = c.IncludeOwners,
                    !.VirtualPath = c.VirtualPath]
        /\ tw = NewWriter
        /\ gz = "nil"
        /\ pc = "config"
        /\ cur = NoCur
        /\ stack = << >>
        /\ result = "none"
        /\ out = << >>
        /\ footer = "none"
        /\ destWritten = FALSE
        /\ closeLog = << >>
        /\ handles = 0

SpecScenario == InitScenario /\ [][Next]_vars

(***************************************************************************)
(* Vocabulary of the properties.                                           *)
(***************************************************************************)
Returned == pc = "done"

Succeeded == pc = "done" /\ result = "nil"

\* the path of object n relative to the target directory
RECURSIVE RelPath(_)
RelPath(n) ==
    IF n = 0 THEN Dot
    ELSE IF fs[n].parent = 0 THEN fs[n].name
    ELSE RelPath(fs[n].parent) \o <<Separator>> \o fs[n].name

\* an exclusion pattern matches the relative path of n or its last component
PatternMatches(n) ==
    \E i \in 1..Len(t.ExcludedPaths) :
        \/ Match(t.ExcludedPaths[i], RelPath(n))
        \/ Match(t.ExcludedPaths[i], fs[n].name)

\* n, or a directory above it, is matched by an exclusion pattern
RECURSIVE ShutOut(_)
ShutOut(n) ==
    \/ PatternMatches(n)
    \/ n # 0 /\ ShutOut(fs[n].parent)

Present(n) == fs[n].kind # "none"

EntriesOf(n) == {i \in 1..Len(out) : out[i].node = n}

SameFile(m, n) == fs[m].dev = fs[n].dev /\ fs[m].ino = fs[n].ino

\* G is all the paths of one regular file, at least two, none excluded
LinkGroup(G) ==
    /\ Cardinality(G) >= 2
    /\ \A n \in G : fs[n].kind = "regular" /\ ~ShutOut(n)
                    /\ fs[n].nlink = Cardinality(G)
    /\ \A m, n \in G : SameFile(m, n)

\* objects are numbered in traversal order
FirstOf(G) == CHOOSE n \in G : \A m \in G : n <= m

FullEntry(e) == e.typeflag = "reg" /\ e.body = "full"

LinkEntry(e) == e.typeflag = "link" /\ e.size = 0 /\ e.body = "none"

\* C1: after a successful run, of the N >= 2 paths of one file with link count
\* N the first in traversal order has exactly one entry, regular with its
\* content, and each other one has exactly one entry, of link type with size 0
\* and no content, whose link target is the name of the first one's entry.
C1_HardLinkGroup ==
    Succeeded =>
        \A G \in SUBSET Nodes :
            LinkGroup(G) =>
                /\ \E i \in 1..Len(out) :
                      /\ EntriesOf(FirstOf(G)) = {i}
                      /\ FullEntry(out[i])
                      /\ \A n \in G \ {FirstOf(G)} :
                            \E j \in 1..Len(out) :
                                /\ EntriesOf(n) = {j}
                                /\ LinkEntry(out[j])
                                /\ out[j].linkname = out[i].name

\* C2: a regular file with link count 1 that is not excluded never has more
\* than one entry and never a link-type entry, whatever t.hardLinks holds; after
\* a successful run it has exactly one entry, which carries its content.
C2_SingleLinkFile ==
    \A n \in Nodes :
        (fs[n].kind = "regular" /\ fs[n].nlink = 1 /\ ~ShutOut(n)) =>
            /\ Cardinality(EntriesOf(n)) <= 1
            /\ \A i \in EntriesOf(n) : out[i].typeflag = "reg"
            /\ Succeeded =>
                  \E i \in 1..Len(out) : EntriesOf(n) = {i} /\ FullEntry(out[i])

\* a successful run over a file with link count 1 whose inode number is in the
\* hard-link table, put there by the links of another file
C2_Witness ==
    /\ Succeeded
    /\ \E n \in Nodes :
          /\ fs[n].kind = "regular" /\ fs[n].nlink = 1 /\ ~ShutOut(n)
          /\ fs[n].ino \in DOMAIN t.hardLinks
          /\ EntriesOf(n) # {}

\* C3: no entry is written for a path that an exclusion pattern matches (by
\* relative path or by last component) nor for anything below such a
\* directory, and such a directory is never listed.
C3_Excluded ==
    /\ \A i \in 1..Len(out) : ~ShutOut(out[i].node)
    /\ pc = "readdir" => ~ShutOut(cur.node)
    /\ \A k \in 1..Len(stack) :
          \A n \in Nodes : RelPath(n) = stack[k].dir => ~ShutOut(n)
    /\ pc \in {"entry", "open", "copy", "flush"} =>
          (cur.node # 0 => ~ShutOut(fs[cur.node].parent))

\* a successful run that wrote entries and left out a directory matched by a
\* pattern together with a child that no pattern matches
C3_Witness ==
    /\ Succeeded
    /\ Len(out) > 0
    /\ \E d, n \in Nodes :
          /\ fs[d].kind = "dir" /\ PatternMatches(d)
          /\ Present(n) /\ fs[n].parent = d /\ n # 0 /\ ~PatternMatches(n)

\* the virtual path prefix as it appears in entry names
CleanPrefix == Clean(Join(<<Dot, t.VirtualPath>>))

\* C4 as stated: with the virtual path prefix P set, every entry name begins
\* with "./P/".
C4_DotSlashPrefix ==
    t.VirtualPath # << >> =>
        \A i \in 1..Len(out) :
            HasPrefix(out[i].name,
                      <<".", Separator>> \o t.VirtualPath \o <<Separator>>)

\* C4 amended: with the virtual path prefix P set, and Q the cleaned form of
\* "./P" not being ".", every entry name begins with "Q/" and not with "./".
C4_CleanedPrefix ==
    (t.VirtualPath # << >> /\ CleanPrefix # Dot) =>
        \A i \in 1..Len(out) :
            /\ HasPrefix(out[i].name, CleanPrefix \o <<Separator>>)
            /\ ~HasPrefix(out[i].name, <<".", Separator>>)

\* a successful run with a prefix that cleaning changes, which wrote the root,
\* a directory, a file, a symlink and a device
C4_Witness ==
    /\ Succeeded
    /\ t.VirtualPath # << >>
    /\ CleanPrefix # t.VirtualPath
    /\ CleanPrefix # Dot
    /\ EntriesOf(0) # {}
    /\ \A k \in {"dir", "reg", "symlink", "block"} :
          \E i \in 1..Len(out) : out[i].typeflag = k /\ out[i].node # 0

\* C5: when Archive with compression GZIP has returned, the tar encoder was
\* closed first and the gzip writer after it.
C5_EncoderClosedFirst ==
    (Returned /\ t.Compression = "GZIP") => closeLog = <<"archive", "gzip">>

\* C6: when Archive returns success with compression NONE or GZIP, every entry
\* written is complete and the end-of-archive footer has been written into the
\* archive stream behind them.
C6_CompleteOnSuccess ==
    (Succeeded /\ t.Compression \in {"NONE", "GZIP"}) =>
        /\ footer = "written"
        /\ \A i \in 1..Len(out) : out[i].typeflag = "reg" => out[i].body = "full"

\* C7: when Archive returns an error, no valid end-of-archive footer has been
\* written.
C7_NoFooterOnError ==
    (Returned /\ result = "error") => footer # "written"

\* C8: with a compression other than NONE and GZIP nothing is ever created,
\* read, written or closed, and Archive returns an error.
C8_RejectedCompression ==
    t.Compression \notin {"NONE", "GZIP"} =>
        /\ pc \in {"config", "done"}
        /\ ~destWritten
        /\ out = << >>
        /\ footer = "none"
        /\ closeLog = << >>
        /\ gz = "nil"
        /\ t.archive = "nil"
        /\ ~tw.closed
        /\ Returned => result = "error"

\* Archive has returned for each of BZIP2, DETECT and an unknown value
C8_Witness ==
    Returned /\ t.Compression = "BZIP2" /\ result = "error"

\* the cleaned absolute path that the symlink n points to
ResolvedTarget(n) ==
    IF IsAbs(fs[n].link) THEN Clean(fs[n].link)
    ELSE Clean(Clean(t.target) \o <<Separator>> \o RelPath(fs[n].parent)
               \o <<Separator>> \o fs[n].link)

\* path p is the root or lies below it
InsideRoot(p) ==
    \/ p = Clean(t.target)
    \/ HasPrefix(p, Clean(t.target) \o <<Separator>>)

\* C9: the target of a symlink entry is, when the link points inside the
\* archived root, a relative path that leads from the symlink's directory to
\* the same object, and, when it points outside, the absolute resolved target.
C9_SymlinkTarget ==
    \A i \in 1..Len(out) :
        out[i].typeflag = "symlink" =>
            LET n == out[i].node
                abs == ResolvedTarget(n)
            IN  IF InsideRoot(abs)
                THEN /\ ~IsAbs(out[i].linkname)
                     /\ Clean(Clean(t.target) \o <<Separator>>
                              \o RelPath(fs[n].parent) \o <<Separator>>
                              \o out[i].linkname) = abs
                ELSE out[i].linkname = abs

\* C10: with IncludePermissions false, directory and symlink entries have mode
\* 0755 and regular-file entries, full or hard link, mode 0644; with
\* IncludePermissions true every entry has the on-disk mode.
C10_Modes ==
    \A i \in 1..Len(out) :
        IF t.IncludePermissions
        THEN out[i].mode = fs[out[i].node].mode
        ELSE /\ out[i].typeflag \in {"dir", "symlink"} => out[i].mode = Mode0755
             /\ out[i].typeflag \in {"reg", "link"} => out[i].mode = Mode0644

\* a successful run with IncludePermissions false that wrote a directory, a
\* symlink, a file with content and a hard link, none of which has the
\* substituted mode on disk
C10_Witness ==
    /\ Succeeded
    /\ ~t.IncludePermissions
    /\ \A k \in {"dir", "symlink", "reg", "link"} :
          \E i \in 1..Len(out) :
              /\ out[i].typeflag = k
              /\ fs[out[i].node].mode \notin {Mode0755, Mode0644}

\* C11: with IncludeOwners false every entry has uid 500 and gid 500; with
\* IncludeOwners true every entry has the uid and gid of the object on disk.
C11_Owners ==
    \A i \in 1..Len(out) :
        IF t.IncludeOwners
        THEN /\ out[i].uid = fs[out[i].node].uid
             /\ out[i].gid = fs[out[i].node].gid
        ELSE out[i].uid = DefaultId /\ out[i].gid = DefaultId

\* a successful run with IncludeOwners false that wrote a directory, a file and
\* a symlink or device, all owned by other ids than 500 on disk
C11_Witness ==
    /\ Succeeded
    /\ ~t.IncludeOwners
    /\ \E i, j, k \in 1..Len(out) :
          /\ out[i].typeflag = "dir" /\ out[j].typeflag = "reg"
          /\ out[k].typeflag \in {"symlink", "block"}
          /\ \A e \in {i, j, k} :
                fs[out[e].node].uid # DefaultId /\ fs[out[e].node].gid # DefaultId

\* the directories above object n
RECURSIVE Ancestors(_)
Ancestors(n) ==
    IF n = 0 THEN {} ELSE {fs[n].parent} \cup Ancestors(fs[n].parent)

\* C12: every entry is preceded in the output by the entry of each directory
\* above its object.
C12_DirectoryFirst ==
    \A i \in 1..Len(out) :
        \A d \in Ancestors(out[i].node) :
            \E j \in 1..(i - 1) : out[j].node = d /\ out[j].typeflag = "dir"

\* a successful run that wrote an entry two directories below the top
C12_Witness ==
    /\ Succeeded
    /\ \E i \in 1..Len(out) : Cardinality(Ancestors(out[i].node)) = 2

\* object n is one Archive writes an entry for
Archivable(n) ==
    /\ Present(n)
    /\ ~ShutOut(n)
    /\ fs[n].kind \in {"dir", "symlink", "regular", "device"}

\* C13 as stated: after a successful run every object that is not excluded and
\* not a socket has exactly one entry, and no other object has one.
C13_AllButSockets ==
    Succeeded =>
        \A n \in Nodes :
            Cardinality(EntriesOf(n)) =
                IF Present(n) /\ ~ShutOut(n) /\ fs[n].kind # "socket"
                THEN 1 ELSE 0

\* C13 amended: after a successful run every non-excluded directory, symlink,
\* regular file and device has exactly one entry, and sockets, named pipes and
\* excluded objects have none.
C13_OnePerArchivable ==
    Succeeded =>
        \A n \in Nodes :
            Cardinality(EntriesOf(n)) = IF Archivable(n) THEN 1 ELSE 0

\* a successful run over a tree with a named pipe, an excluded object and
\* objects that are written
C13_Witness ==
    /\ Succeeded
    /\ \E n \in Nodes : fs[n].kind = "fifo" /\ ~ShutOut(n)
    /\ \E n \in Nodes : Present(n) /\ ShutOut(n)
    /\ \E n \in Nodes : n # 0 /\ Archivable(n) /\ fs[n].kind # "dir"

\* the fields of NewTar other than the target and the compression are untouched
DefaultSettings ==
    /\ t.IncludePermissions
    /\ ~t.IncludeOwners
    /\ t.VirtualPath = << >>

\* what the scenarios say of an entry: its name, its type, whether it carries
\* content, its link target
Listing ==
    [i \in 1..Len(out) |->
        <<out[i].name, out[i].typeflag,
          IF out[i].body = "full" THEN out[i].size ELSE 0, out[i].linkname>>]

EntryA == <<<<".", "/", "a", "/">>, "dir", 0, << >>>>

EntryF == <<<<".", "/", "a", "/">> \o Name_f_txt, "reg", 2, << >>>>

EntryL == <<<<".", "/", "a", "/">> \o Name_link, "symlink", 0, Name_f_txt>>

EntryRoot == <<<<".", "/", ".", "/">>, "dir", 0, << >>>>

EntryKeep == <<<<".", "/">> \o Name_keep_txt, "reg", 2, << >>>>

\* C14 as stated: a successful run with default settings over a/, a/f.txt
\* ("hi") and a/link -> f.txt yields the entries ./a/, ./a/f.txt with its
\* content and ./a/link with target f.txt, in this order.
C14_ThreeEntries ==
    (Succeeded /\ DefaultSettings /\ t.ExcludedPaths = << >> /\ fs = TreeA(Absent)) =>
        Listing = <<EntryA, EntryF, EntryL>>

\* C14 amended: the run yields the entry ././ of the root directory and then
\* ./a/, ./a/f.txt with its content and ./a/link with target f.txt.
C14_RootThenThree ==
    (Succeeded /\ DefaultSettings /\ t.ExcludedPaths = << >> /\ fs = TreeA(Absent)) =>
        Listing = <<EntryRoot, EntryA, EntryF, EntryL>>

C14_Witness ==
    /\ Succeeded /\ DefaultSettings /\ t.ExcludedPaths = << >>
    /\ fs = TreeA(Absent)
    /\ Len(out) = 4

\* C15 as stated: a successful run with the one exclusion pattern *.tmp over
\* keep.txt and drop.tmp yields an archive of the single entry ./keep.txt.
C15_OnlyKeep ==
    (/\ Succeeded /\ DefaultSettings
     /\ t.ExcludedPaths = << <<"*", ".", "t", "m", "p">> >>
     /\ fs = TreeB(Absent)) =>
        Listing = <<EntryKeep>>

\* C15 amended: the archive holds the entry ././ of the root directory and
\* ./keep.txt, and nothing else.
C15_RootAndKeep ==
    (/\ Succeeded /\ DefaultSettings
     /\ t.ExcludedPaths = << <<"*", ".", "t", "m", "p">> >>
     /\ fs = TreeB(Absent)) =>
        Listing = <<EntryRoot, EntryKeep>>

C15_Witness ==
    /\ Succeeded /\ DefaultSettings
    /\ t.ExcludedPaths = << <<"*", ".", "t", "m", "p">> >>
    /\ fs = TreeB(Absent)
    /\ Len(out) = 2

\* the program points of the traversal
Traversing == pc \in {"entry", "readdir", "open", "copy", "flush"}

\* the entries before the last one
Earlier(o) == SubSeq(o, 1, Len(o) - 1)

\* C16: a failure at one object ends the traversal at once: a failed write
\* makes Archive return the error, the failing step adds no entry and leaves
\* the entries before the current one as they are, and once the error is
\* Archive's result the traversal is over, the result stays and the entries
\* written stay as they are.
C16_FailureStops ==
    /\ [](tw.err => result = "error")
    /\ [](result = "error" => ~Traversing)
    /\ [][(result = "none" /\ result' = "error") =>
              /\ Len(out') = Len(out)
              /\ Earlier(out') = Earlier(out)]_vars
    /\ [][result = "error" => (result' = "error" /\ out' = out)]_vars

C16_Witness ==
    /\ Returned
    /\ result = "error"
    /\ Len(out) > 1
    /\ \E n \in Nodes : Archivable(n) /\ EntriesOf(n) = {}

\* the step that handles a device that is not excluded
AtDevice ==
    /\ pc = "entry"
    /\ fs[cur.node].kind = "device"
    /\ ~shouldBeExcluded(cur.fullName)

\* C17: the step that handles a device never aborts the run for want of the
\* device numbers: it writes the header of the device, unless the header
\* write itself fails.
C17_DeviceHeaderWritten ==
    [][AtDevice =>
          \/ /\ Len(out') = Len(out) + 1
             /\ out'[Len(out')].node = cur.node
             /\ result' \in {"none", "nil"}
          \/ tw'.err /\ result' = "error"]_vars

Skipped(n) == fs[n].kind \in {"socket", "fifo"}

\* C18: no entry is ever written for a socket or a named pipe; the step that
\* handles one writes nothing, raises no error, and hands over to the next
\* object of the traversal, or ends the traversal with success when there is
\* none.
C18_SkippedSilently ==
    /\ [](\A n \in Nodes : Skipped(n) => EntriesOf(n) = {})
    /\ [][(pc = "entry" /\ Skipped(cur.node) /\ ~shouldBeExcluded(cur.fullName)) =>
              /\ out' = out /\ tw' = tw /\ destWritten' = destWritten
              /\ LET r == Resume(stack)
                 IN  IF r.pc = "return"
                     THEN result' = "nil"
                     ELSE /\ result' = "none"
                          /\ pc' = "entry"
                          /\ cur' = r.cur]_vars

C18_Witness ==
    /\ Succeeded
    /\ \E n, m \in Nodes :
          /\ n < m
          /\ Skipped(n) /\ ~ShutOut(n)
          /\ EntriesOf(m) # {}

\* the regular files with inode number k and more than one link that are not
\* excluded
Linked(k) ==
    {n \in Nodes : /\ fs[n].kind = "regular"
                   /\ fs[n].ino = k
                   /\ fs[n].nlink > 1
                   /\ ~ShutOut(n)}

\* the archive name of object n
ArchiveName(n) ==
    IF t.VirtualPath = << >>
    THEN <<".", "/">> \o RelPath(n)
    ELSE Clean(Join(<<Dot, t.VirtualPath, <<".", "/">> \o RelPath(n)>>))

\* C19: every key of the hard-link table is the inode number of a regular
\* file with more than one link that is not excluded, its value is the
\* archive name of the first such file of the traversal, and no step changes
\* or removes a mapping.
C19_HardLinkTable ==
    /\ [](\A k \in DOMAIN t.hardLinks :
              /\ Linked(k) # {}
              /\ t.hardLinks[k] = ArchiveName(FirstOf(Linked(k))))
    /\ [][\A k \in DOMAIN t.hardLinks :
              /\ k \in DOMAIN t'.hardLinks
              /\ t'.hardLinks[k] = t.hardLinks[k]]_vars

C19_Witness ==
    /\ Returned
    /\ \E k \in DOMAIN t.hardLinks :
          /\ Cardinality(Linked(k)) >= 2
          /\ \A n \in Linked(k) : EntriesOf(n) # {}

\* C20: at most one source file is open; one is open exactly while the
\* content of the regular entry written last, that of the current object, is
\* copied and flushed; none is open once the traversal is left or Archive
\* has returned.
C20_OneHandle ==
    /\ handles \in {0, 1}
    /\ handles = 1 <=> pc \in {"copy", "flush"}
    /\ handles = 1 =>
          /\ Len(out) > 0
          /\ out[Len(out)].node = cur.node
          /\ out[Len(out)].typeflag = "reg"
    /\ Returned => handles = 0

C20_Witness ==
    /\ Returned
    /\ result = "error"
    /\ handles = 0
    /\ Len(out) > 0
    /\ out[Len(out)].body = "partial"

\* C22: a link-type entry and the entry its link target names are entries of
\* one and the same file on disk, same device and same inode; files that
\* share no more than the inode number are never linked to one another.
C22_LinkToSameFile ==
    \A i \in 1..Len(out) :
        out[i].typeflag = "link" =>
            \E j \in 1..Len(out) :
                /\ out[j].name = out[i].linkname
                /\ SameFile(out[j].node, out[i].node)

\* C21: in the archive of every Archive call, the link target of a link-type
\* entry is the name of a regular entry that stands earlier in that archive
\* and carries its content.
C21_LinkTargetInArchive ==
    \A i \in 1..Len(out) :
        out[i].typeflag = "link" =>
            \E j \in 1..(i - 1) :
                /\ FullEntry(out[j])
                /\ out[j].name = out[i].linkname

====
